---- MODULE Spec2Model ----
(***************************************************************************)
(* Model of the retrieval-and-explanation core of pocket-ml-paper-rag:     *)
(* VectorStore (app/vector_store.py) over a Chroma collection, QueryEngine *)
(* (app/query_engine.py) and the HTTP handlers of app/main.py that call    *)
(* them.                                                                   *)
(*                                                                         *)
(* Text is a sequence of one-character strings, so that join, split and    *)
(* strip are computed as Python computes them.  Titles, snippets and       *)
(* metadata keys are opaque strings.                                       *)
(***************************************************************************)
EXTENDS Integers, Sequences, FiniteSets, TLC

\* ------------------------------------------------------------------ bounds

\* Size of the pool uuid.uuid4() draws identifiers from, which is also the
\* most add_paper calls a behaviour makes.
MaxIds == 2
\* Most add_paper calls made in the metadata round-trip specification.
MaxMetaPapers == 1
\* Number of concurrent add_paper callers.
MaxProcs == 2
\* The Embedder's dimension D (384 for all-MiniLM-L6-v2), scaled down.
EmbeddingDim == 2
\* Most uploads that reach add_paper in the upload specification.
MaxUploads == 2
\* Most characters of a text given to _clean_text.
MaxCleanLen == 5

Ids == 1..MaxIds
Procs == 1..MaxProcs

Min(a, b) == IF a < b THEN a ELSE b

\* ------------------------------------------------------------------- text

\* The characters str.isspace() holds for, which str.strip() removes: the
\* space, \n, \t, \r, \f, and written as they are the vertical tab (11),
\* the separators 28 to 31, the next-line character (133) and the no-break
\* space (160); the spaces with a code above 255 are written by their code
\* point, each one character of a text.
WhiteSpace ==
  {" ", "\n", "\t", "\r", "\f",
   "", "", "", "", "", "", " ",
   "U+1680", "U+2000", "U+2001", "U+2002", "U+2003", "U+2004", "U+2005",
   "U+2006", "U+2007", "U+2008", "U+2009", "U+200A", "U+2028", "U+2029",
   "U+202F", "U+205F", "U+3000"}

\* sep.join(parts).
RECURSIVE Join(_, _)
Join(sep, parts) ==
  IF parts = <<>> THEN <<>>
  ELSE IF Len(parts) = 1 THEN parts[1]
  ELSE parts[1] \o sep \o Join(sep, Tail(parts))

\* s.split(sep): the pieces between separators, empty pieces kept, so the
\* empty text splits into one empty piece.
RECURSIVE Split(_, _)
Split(s, sep) ==
  IF \A i \in 1..Len(s) : s[i] /= sep THEN <<s>>
  ELSE LET i == CHOOSE k \in 1..Len(s) :
                  s[k] = sep /\ \A j \in 1..(k - 1) : s[j] /= sep
       IN <<SubSeq(s, 1, i - 1)>> \o Split(SubSeq(s, i + 1, Len(s)), sep)

\* s.strip(): leading and trailing whitespace removed.
RECURSIVE LStrip(_)
LStrip(s) ==
  IF s /= <<>> /\ s[1] \in WhiteSpace THEN LStrip(Tail(s)) ELSE s

RECURSIVE RStrip(_)
RStrip(s) ==
  IF s /= <<>> /\ s[Len(s)] \in WhiteSpace
  THEN RStrip(SubSeq(s, 1, Len(s) - 1)) ELSE s

Strip(s) == RStrip(LStrip(s))

\* ---------------------------------------------------------------- vectors

Unit(i, n) == [j \in 1..n |-> IF j = i THEN 1 ELSE 0]
Ones(n) == [j \in 1..n |-> 1]

RECURSIVE DotTo(_, _, _)
DotTo(a, b, n) == IF n = 0 THEN 0 ELSE a[n] * b[n] + DotTo(a, b, n - 1)
Dot(a, b) == DotTo(a, b, Len(a))

\* Vectors of the Embedder's dimension, as Embedder.embed returns them.
EmbedderVectors == {Unit(1, EmbeddingDim), Unit(2, EmbeddingDim), Ones(EmbeddingDim)}
\* A vector of another length, which a caller of VectorStore can pass.
LongVector == Ones(EmbeddingDim + 1)

\* Cosine distance 1 - dot/sqrt(nq*nv), kept exact as its three integers.
CosineDistance(q, v) == [dot |-> Dot(q, v), nq |-> Dot(q, q), nv |-> Dot(v, v)]

\* d1 is strictly smaller than d2 (the cosine of d1 is strictly larger).
Closer(d1, d2) ==
  LET a == d1.dot
      b == d2.dot
      A == d1.nq * d1.nv
      B == d2.nq * d2.nv
  IN IF a >= 0 /\ b < 0 THEN TRUE
     ELSE IF a < 0 /\ b >= 0 THEN FALSE
     ELSE IF a >= 0 THEN a * a * B > b * b * A
     ELSE a * a * B < b * b * A

SameDistance(d1, d2) == ~Closer(d1, d2) /\ ~Closer(d2, d1)

\* ------------------------------------------------------------------ state

VARIABLES
  records,       \* the Chroma collection "ml_papers": id -> stored entry
  order,         \* the ids of the collection in insertion order
  dimension,     \* the collection's dimension, 0 until the first insert
  issued,        \* the identifiers uuid.uuid4() has produced so far
  inputs,        \* for each stored id, the arguments add_paper was called with
  ret,           \* the outcome of the last call
  pc,            \* concurrent add_paper callers: position of each
  paper_id,      \* concurrent add_paper callers: the local paper_id of each
  qpc,           \* QueryEngine.search: position of the request in progress
  qreq,          \* QueryEngine.search: the request in progress
  papers,        \* QueryEngine.search: the formatted hits
  explanations,  \* QueryEngine._generate_explanations: the list built so far
  replies,       \* what the generative-text service did for each hit so far
  calls,         \* external calls made for the current search request
  reading,       \* upload_pdf: the uploads waiting at await file.read()
  arrived,       \* POST /upload_pdf: the number of requests received
  upc,           \* POST /upload_pdf: position of the upload in progress
  ureq,          \* POST /upload_pdf: the locals of the upload in progress
  sent,          \* the last request sent to the generative-text service
  ties,          \* the order the index returns entries of equal distance in
  tally,         \* add_paper calls that returned, with the ids they returned,
                 \* and deletes of stored ids
  cleaning       \* _clean_text: position, argument and local text of the call

storeVars == <<records, order, dimension, issued, inputs, tally>>
procVars == <<pc, paper_id>>
queryVars == <<qpc, qreq, papers, explanations, replies, calls>>
uploadVars == <<upc, ureq, reading, arrived, cleaning>>
vars == <<records, order, dimension, issued, inputs, ret, pc, paper_id,
          qpc, qreq, papers, explanations, replies, calls, upc, ureq, reading, arrived,
          sent, ties, tally, cleaning>>

\* Python's None.
None == [none |-> TRUE]

\* What a call did: it returned a value, or it raised.
Return(op, args, value) == [op |-> op, kind |-> "return", args |-> args, value |-> value]
Raise(op, args) == [op |-> op, kind |-> "raise", args |-> args, value |-> None]

\* ------------------------------------------------------- Chroma collection

\* {**a, **b}: the keys of both, b's value where both have the key.
DictMerge(a, b) ==
  [k \in DOMAIN a \cup DOMAIN b |-> IF k \in DOMAIN b THEN b[k] ELSE a[k]]

\* collection.add raises when the collection already has a dimension and the
\* embedding has another length; the first insert fixes the dimension.
AddRejected(embedding) == dimension /= 0 /\ Len(embedding) /= dimension

\* The collection after collection.add(ids=[id], ...): an id that is already
\* present is left as it is.
RecordsAfterAdd_vector_first(id, embedding, metadata, document) ==
  IF id \in DOMAIN records THEN records
  ELSE [i \in DOMAIN records \cup {id} |->
          IF i = id
          THEN [embedding |-> embedding, metadata |-> [k \in {} |-> ""],
                document |-> document]
          ELSE records[i]]

RecordsAfterAdd(id, embedding, metadata, document) ==
  IF id \in DOMAIN records THEN records
  ELSE [i \in DOMAIN records \cup {id} |->
          IF i = id
          THEN [embedding |-> embedding, metadata |-> metadata, document |-> document]
          ELSE records[i]]

OrderAfterAdd(id) == IF id \in DOMAIN records THEN order ELSE Append(order, id)

\* The collection after collection.delete(ids=[id]): ids that are not
\* present are skipped without an error.
RecordsAfterDelete_all(id) == [i \in {} |-> records[i]]

RecordsAfterDelete(id) == [i \in DOMAIN records \ {id} |-> records[i]]

\* The where filter of collection.query: None, or one key that must hold
\* the given value.
NoFilter == [nofilter |-> TRUE]
Matches(id, where) ==
  \/ where = NoFilter
  \/ /\ where /= NoFilter
     /\ where.key \in DOMAIN records[id].metadata
     /\ records[id].metadata[where.key] = where.value

Position(id) == CHOOSE i \in 1..Len(order) : order[i] = id

\* The orders in which the index can return entries of equal distance: the
\* library fixes one, and the code asks for none.
TieOrders == {"insertion", "reverse"}

\* a is ranked before b for the query vector q: nearer first, and of two
\* entries at the same distance the one the index's tie order puts first.
RankedBefore_by_insertion(q, a, b) == Position(a) < Position(b)

RankedBefore(q, a, b) ==
  LET da == CosineDistance(q, records[a].embedding)
      db == CosineDistance(q, records[b].embedding)
  IN \/ Closer(da, db)
     \/ /\ SameDistance(da, db)
        /\ IF ties = "insertion" THEN Position(a) < Position(b)
           ELSE Position(a) > Position(b)

\* collection.query raises for n_results < 1 and for a query vector whose
\* length is not the collection's dimension.
QueryRejected(q, n_results) ==
  \/ n_results < 1
  \/ dimension /= 0 /\ Len(q) /= dimension

\* The ids collection.query returns: the n_results nearest of the entries
\* that pass the filter, all of them when there are fewer.
QueryIds(q, n_results, where) ==
  LET cand == {i \in DOMAIN records : Matches(i, where)}
      ranked == [n \in 1..Cardinality(cand) |->
                   CHOOSE i \in cand :
                     Cardinality({j \in cand : RankedBefore(q, j, i)}) = n - 1]
  IN SubSeq(ranked, 1, Min(n_results, Cardinality(cand)))

\* ------------------------------------------------------------ VectorStore


\* uuid.uuid4(): the values it can produce, an identifier not produced before.
uuid4_reused == Ids
uuid4 == Ids \ issued

\* The metadata add_paper stores: the keywords joined with commas, the
\* length of the full text, and the caller's extra metadata merged last.
paper_metadata_spaced(title, summary, keywords, content_snippet, full_text, metadata) ==
  DictMerge([title |-> title,
             summary |-> summary,
             keywords |-> Join(<<",", " ">>, keywords),
             content_snippet |-> content_snippet,
             full_text_length |-> Len(full_text)],
            metadata)

paper_metadata(title, summary, keywords, content_snippet, full_text, metadata) ==
  DictMerge([title |-> title,
             summary |-> summary,
             keywords |-> Join(<<",">>, keywords),
             content_snippet |-> content_snippet,
             full_text_length |-> Len(full_text)],
            metadata)

AddArgs(title, summary, keywords, content_snippet, full_text, embedding, metadata) ==
  [title |-> title, summary |-> summary, keywords |-> keywords,
   content_snippet |-> content_snippet, full_text |-> full_text,
   embedding |-> embedding, metadata |-> metadata]

\* The arguments of an add_paper call as the record of the call keeps them,
\* with whether the call left the collection as it was and the number of
\* entries before it.
CallArgs(a, unchanged) ==
  [title |-> a.title, summary |-> a.summary, keywords |-> a.keywords,
   content_snippet |-> a.content_snippet, full_text |-> a.full_text,
   embedding |-> a.embedding, metadata |-> a.metadata,
   unchanged |-> unchanged, count_before |-> Cardinality(DOMAIN records)]

\* The body of add_paper once paper_id is chosen: collection.add, which
\* raises when the storage is unreachable (ok = FALSE) or rejects the
\* embedding; and then the return of add_paper or that exception.
StoreWrite(id, a, ok) ==
  IF ok /\ ~AddRejected(a.embedding)
  THEN /\ records' = RecordsAfterAdd(
                       id, a.embedding,
                       paper_metadata(a.title, a.summary, a.keywords,
                                      a.content_snippet, a.full_text, a.metadata),
                       a.content_snippet)
       /\ order' = OrderAfterAdd(id)
       /\ dimension' = IF dimension = 0 THEN Len(a.embedding) ELSE dimension
       /\ inputs' = [i \in DOMAIN inputs \cup {id} |-> IF i = id THEN a ELSE inputs[i]]
       /\ tally' = [tally EXCEPT !.added = @ + 1, !.ids = Append(@, id)]
  ELSE UNCHANGED <<records, order, dimension, inputs, tally>>

StoreEntry(id, a, ok) ==
  /\ StoreWrite(id, a, ok)
  /\ ret' = IF ok /\ ~AddRejected(a.embedding)
            THEN Return("add_paper", CallArgs(a, records' = records), id)
            ELSE Raise("add_paper", CallArgs(a, TRUE))

add_paper(title, summary, keywords, content_snippet, full_text, embedding, metadata, ok) ==
  \E id \in uuid4 :
    /\ issued' = issued \cup {id}
    /\ StoreEntry(id, AddArgs(title, summary, keywords, content_snippet,
                              full_text, embedding, metadata), ok)
    /\ UNCHANGED <<ties, procVars, queryVars, uploadVars, sent>>

\* A call without extra metadata, and a one-letter keyword.
NoMetadata == [k \in {} |-> ""]
Keyword(c) == <<c>>

\* The paper caller p adds: a text of its own for each caller.
ProcPaper(p) ==
  AddArgs("Paper A", "Summary", <<Keyword("m")>>, "Snippet", [i \in 1..p |-> "x"],
          Unit(1, EmbeddingDim), NoMetadata)

\* add_paper called by one of several concurrent callers: the statement that
\* draws paper_id, and then the rest of the body, which other callers'
\* statements can precede.
add_paper_begin(p) ==
  /\ pc[p] = "idle"
  /\ \E id \in uuid4 :
       /\ paper_id' = [paper_id EXCEPT ![p] = id]
       /\ issued' = issued \cup {id}
  /\ pc' = [pc EXCEPT ![p] = "add"]
  /\ UNCHANGED <<ties, tally, records, order, dimension, inputs, ret, queryVars,
               uploadVars, sent>>

add_paper_store(p, ok) ==
  /\ pc[p] = "add"
  /\ StoreEntry(paper_id[p], ProcPaper(p), ok)
  /\ pc' = [pc EXCEPT ![p] = IF ret'.kind = "return" THEN "returned" ELSE "raised"]
  /\ UNCHANGED <<ties, issued, paper_id, queryVars, uploadVars, sent>>

\* The list search builds from the result of collection.query.
formatted_results(query_embedding, ids) ==
  [n \in 1..Len(ids) |->
     [id |-> ids[n],
      distance |-> CosineDistance(query_embedding, records[ids[n]].embedding),
      metadata |-> records[ids[n]].metadata,
      document |-> records[ids[n]].document]]

\* VectorStore.search: its results, or the exception of collection.query.
search_results_padded(query_embedding, top_k, filter_metadata) ==
  LET ids == QueryIds(query_embedding, top_k, filter_metadata)
  IN formatted_results(query_embedding,
                       IF ids /= <<>> /\ Len(ids) < top_k
                       THEN ids \o [n \in 1..(top_k - Len(ids)) |-> ids[Len(ids)]]
                       ELSE ids)

search_results(query_embedding, top_k, filter_metadata) ==
  formatted_results(query_embedding, QueryIds(query_embedding, top_k, filter_metadata))

SearchArgs(query_embedding, top_k, filter_metadata, ok) ==
  [query_embedding |-> query_embedding, top_k |-> top_k,
   filter_metadata |-> filter_metadata, ok |-> ok]

search_outcome_swallowed(query_embedding, top_k, filter_metadata, ok) ==
  Return("search", SearchArgs(query_embedding, top_k, filter_metadata, ok),
         IF ok /\ ~QueryRejected(query_embedding, top_k)
         THEN search_results(query_embedding, top_k, filter_metadata)
         ELSE <<>>)

search_outcome(query_embedding, top_k, filter_metadata, ok) ==
  IF ok /\ ~QueryRejected(query_embedding, top_k)
  THEN Return("search", SearchArgs(query_embedding, top_k, filter_metadata, ok),
              search_results(query_embedding, top_k, filter_metadata))
  ELSE Raise("search", SearchArgs(query_embedding, top_k, filter_metadata, ok))

search(query_embedding, top_k, filter_metadata, ok) ==
  /\ ret' = search_outcome(query_embedding, top_k, filter_metadata, ok)
  /\ UNCHANGED <<ties, storeVars, procVars, queryVars, uploadVars, sent>>

\* VectorStore.get_paper: the entry, or None when it is absent or
\* collection.get raises.
get_paper_value(id, ok) ==
  IF ok /\ id \in DOMAIN records
  THEN [id |-> id, metadata |-> records[id].metadata, document |-> records[id].document]
  ELSE None

get_paper(id, ok) ==
  /\ ret' = Return("get_paper", [paper_id |-> id, ok |-> ok], get_paper_value(id, ok))
  /\ UNCHANGED <<ties, storeVars, procVars, queryVars, uploadVars, sent>>

\* VectorStore.list_all_papers: every entry, or [] when collection.get raises.
list_all_papers_value_first(ok) ==
  IF ok
  THEN [n \in 1..Min(1, Len(order)) |->
          [id |-> order[n], metadata |-> records[order[n]].metadata,
           document |-> records[order[n]].document]]
  ELSE <<>>

list_all_papers_value(ok) ==
  IF ok
  THEN [n \in 1..Len(order) |->
          [id |-> order[n], metadata |-> records[order[n]].metadata,
           document |-> records[order[n]].document]]
  ELSE <<>>

list_all_papers(ok) ==
  /\ ret' = Return("list_all_papers", [ok |-> ok], list_all_papers_value(ok))
  /\ UNCHANGED <<ties, storeVars, procVars, queryVars, uploadVars, sent>>

\* VectorStore.count: the number of entries, or 0 when collection.count raises.
count_value(ok) == IF ok THEN Cardinality(DOMAIN records) ELSE 0

count(ok) ==
  /\ ret' = Return("count", [ok |-> ok], count_value(ok))
  /\ UNCHANGED <<ties, storeVars, procVars, queryVars, uploadVars, sent>>

\* VectorStore.__init__ on a persist directory that already holds the
\* collection: PersistentClient reads the directory, which raises when it
\* cannot be read (ok = FALSE), and get_or_create_collection returns the
\* collection as it was stored.  embedding_dim is the dimension of the
\* Embedder passed in, which __init__ keeps and compares with nothing.
VectorStore_init(embedding_dim, ok) ==
  /\ ret' = IF ok
            THEN Return("__init__",
                        [embedding_dim |-> embedding_dim, dimension |-> dimension,
                         entries |-> records],
                        None)
            ELSE Raise("__init__",
                       [embedding_dim |-> embedding_dim, dimension |-> dimension,
                        entries |-> records])
  /\ UNCHANGED <<ties, storeVars, procVars, queryVars, uploadVars, sent>>

\* VectorStore.delete_paper: True unless collection.delete raises.
delete_paper_value(id, ok) == ok

records_after_delete_paper_kept(id, ok) == records
records_after_delete_paper(id, ok) == IF ok THEN RecordsAfterDelete(id) ELSE records

\* One more delete of a stored id, when collection.delete removed one.
TallyAfterDelete(id, ok) ==
  IF ok /\ id \in DOMAIN records THEN [tally EXCEPT !.deleted = @ + 1] ELSE tally

delete_paper(id, ok) ==
  /\ records' = records_after_delete_paper(id, ok)
  /\ order' = SelectSeq(order, LAMBDA i : i \in DOMAIN records')
  /\ inputs' = IF delete_paper_value(id, ok)
               THEN [i \in DOMAIN inputs \ {id} |-> inputs[i]]
               ELSE inputs
  /\ tally' = TallyAfterDelete(id, ok)
  /\ ret' = Return("delete_paper",
                   [paper_id |-> id, ok |-> ok,
                    stored |-> id \in DOMAIN records,
                    count_before |-> Cardinality(DOMAIN records),
                    unchanged |-> records' = records],
                   delete_paper_value(id, ok))
  /\ UNCHANGED <<ties, dimension, issued, procVars, queryVars, uploadVars, sent>>

\* The keywords view QueryEngine.search builds from stored metadata.
keywords_view(metadata) ==
  IF "keywords" \in DOMAIN metadata /\ metadata.keywords /= <<>>
  THEN Split(metadata.keywords, ",")
  ELSE <<>>

\* ----------------------------------------------------------- LLMProcessor

\* What the chat completion did for a request: raised, was not answered
\* until the client of "from openai import OpenAI" gave up and raised its
\* timeout error, answered without content, or answered with a text.
LLMRaised == [kind |-> "raise", content |-> <<>>]
LLMTimedOut == [kind |-> "timeout", content |-> <<>>]
LLMNoContent == [kind |-> "none", content |-> <<>>]
LLMText(content) == [kind |-> "text", content |-> content]

\* A request to the generative-text service: the texts the caller put in,
\* and those texts as the prompt carries them.
NothingSent == [op |-> "none", input |-> <<>>, text |-> <<>>]
Sent(op, input, text) == [op |-> op, input |-> input, text |-> text]

\* max_chars of summarize and extract_keywords.
max_chars == 8000
Ellipsis == <<".", ".", ".">>

\* if len(text) > max_chars: text = text[:max_chars] + "..."
truncated(text) ==
  IF Len(text) > max_chars THEN SubSeq(text, 1, max_chars) \o Ellipsis ELSE text

\* response.choices[0].message.content.strip(): raises when the request
\* raised and when the reply has no content.
reply_failed_ignored(outcome) == FALSE
reply_failed(outcome) == outcome.kind /= "text"

\* seq[:n] of Python: the first n entries, and for a negative n all but the
\* last -n.
SliceTo(seq, n) ==
  IF n >= 0 THEN SubSeq(seq, 1, Min(n, Len(seq)))
  ELSE SubSeq(seq, 1, Len(seq) + n)

\* [kw.strip() for kw in keywords_str.split(",") if kw.strip()][:num_keywords]
RECURSIVE stripped_nonempty(_)
stripped_nonempty(pieces) ==
  IF pieces = <<>> THEN <<>>
  ELSE IF Strip(pieces[1]) = <<>> THEN stripped_nonempty(Tail(pieces))
  ELSE <<Strip(pieces[1])>> \o stripped_nonempty(Tail(pieces))

parsed_keywords_uncapped(content, num_keywords) ==
  stripped_nonempty(Split(Strip(content), ","))

parsed_keywords(content, num_keywords) ==
  SliceTo(stripped_nonempty(Split(Strip(content), ",")), num_keywords)

LLMArgs(text, n, outcome) == [text |-> text, num |-> n, outcome |-> outcome]

\* LLMProcessor.summarize: the stripped reply, or ValueError.
summarize(text, max_sentences, outcome) ==
  /\ sent' = Sent("summarize", <<text>>, <<truncated(text)>>)
  /\ ret' = IF reply_failed(outcome)
            THEN Raise("summarize", LLMArgs(text, max_sentences, outcome))
            ELSE Return("summarize", LLMArgs(text, max_sentences, outcome),
                        Strip(outcome.content))
  /\ UNCHANGED <<ties, storeVars, procVars, queryVars, uploadVars>>

\* LLMProcessor.extract_keywords: the parsed reply, or ValueError.
extract_keywords(text, num_keywords, outcome) ==
  /\ sent' = Sent("extract_keywords", <<text>>, <<truncated(text)>>)
  /\ ret' = IF reply_failed(outcome)
            THEN Raise("extract_keywords", LLMArgs(text, num_keywords, outcome))
            ELSE Return("extract_keywords", LLMArgs(text, num_keywords, outcome),
                        parsed_keywords(outcome.content, num_keywords))
  /\ UNCHANGED <<ties, storeVars, procVars, queryVars, uploadVars>>

\* ------------------------------------------------------- HTTP handlers

Response(status, detail) == [status |-> status, detail |-> detail]

\* DELETE /papers/{paper_id}: 404 when get_paper finds nothing, else the
\* outcome of VectorStore.delete_paper.
http_delete_paper(id, okGet, okDelete) ==
  IF get_paper_value(id, okGet) = None
  THEN /\ ret' = Return("DELETE /papers", [paper_id |-> id],
                        Response(404, "Paper not found"))
       /\ UNCHANGED <<ties, storeVars, procVars, queryVars, uploadVars, sent>>
  ELSE /\ records' = records_after_delete_paper(id, okDelete)
       /\ order' = SelectSeq(order, LAMBDA i : i \in DOMAIN records')
       /\ inputs' = IF delete_paper_value(id, okDelete)
                    THEN [i \in DOMAIN inputs \ {id} |-> inputs[i]]
                    ELSE inputs
       /\ tally' = TallyAfterDelete(id, okDelete)
       /\ ret' = Return("DELETE /papers", [paper_id |-> id],
                        IF delete_paper_value(id, okDelete)
                        THEN Response(200, "Paper deleted successfully")
                        ELSE Response(500, "Failed to delete paper"))
       /\ UNCHANGED <<ties, dimension, issued, procVars, queryVars, uploadVars, sent>>

\* GET /papers/{paper_id}: the paper when get_paper finds one.  When it
\* finds none the handler raises HTTPException(404) inside its try block,
\* whose only clause, except Exception, catches it and raises
\* HTTPException(500) in its place.
http_get_paper(id, ok) ==
  /\ ret' = Return("GET /papers", [paper_id |-> id, ok |-> ok,
                                   stored |-> id \in DOMAIN records],
                   IF get_paper_value(id, ok) = None
                   THEN Response(500, "Error retrieving paper")
                   ELSE [status |-> 200, paper |-> get_paper_value(id, ok)])
  /\ UNCHANGED <<ties, storeVars, procVars, queryVars, uploadVars, sent>>

\* GET /search declares top_k as Query(5, ge=1, le=20).
TopKMin == 1
TopKMax == 20

\* FastAPI runs the handler only for a top_k within the declared range.
top_k_accepted_unbounded(top_k) == top_k >= TopKMin
top_k_accepted(top_k) == top_k >= TopKMin /\ top_k <= TopKMax

\* not query or not query.strip()
query_is_empty_unstripped(query) == query = <<>>
query_is_empty(query) == query = <<>> \/ Strip(query) = <<>>

\* What Embedder.embed did for the query: it was not called, it raised, or
\* the vector it returned.
NotEmbedded == <<"not called">>
EmbedFailed == <<"failed">>

FallbackExplanation ==
  <<"This paper is relevant because it matches keywords and topics from your query.">>

NoCalls == [embed |-> 0, search |-> 0, llm |-> 0]
\* A GET /search request as the record of the call keeps it: the query and
\* top_k, what the embedder did for it (NotEmbedded, EmbedFailed or the vector
\* it returned), what the index did for it ("not called", "raised" or
\* "answered"), and what the generative-text service did for each hit.
NotCalled == [called |-> FALSE]
SearchRequest(query, top_k, embedded, index, outcomes) ==
  [query |-> query, top_k |-> top_k, embedded |-> embedded, index |-> index,
   replies |-> outcomes]
\* A request the handler rejects before QueryEngine.search is called.
RejectedRequest(query, top_k) == SearchRequest(query, top_k, NotEmbedded, "not called", <<>>)
\* What collection.query did for the search: it raises when the storage is
\* unreachable (ok = FALSE) and when it rejects the query.
IndexDid(embedded, top_k, ok) ==
  IF ok /\ ~QueryRejected(embedded, top_k) THEN "answered" ELSE "raised"

\* The paper QueryEngine.search builds from one result of VectorStore.search.
format_paper(result) ==
  [id |-> result.id,
   title |-> IF "title" \in DOMAIN result.metadata
             THEN result.metadata.title ELSE "Unknown",
   summary |-> IF "summary" \in DOMAIN result.metadata
               THEN result.metadata.summary ELSE "",
   keywords |-> keywords_view(result.metadata),
   content_snippet |-> IF "content_snippet" \in DOMAIN result.metadata
                       THEN result.metadata.content_snippet ELSE "",
   metadata |-> result.metadata,
   similarity_score |-> [one_minus |-> result.distance]]

\* The prompt of _generate_explanations for one paper carries the user's
\* query, the paper's title, its summary and its keywords joined with ", ",
\* each as it is.
explanation_request(query, paper) ==
  Sent("explanation",
       <<query, paper.title, paper.summary, Join(<<",", " ">>, paper.keywords)>>,
       <<query, paper.title, paper.summary, Join(<<",", " ">>, paper.keywords)>>)

\* One pass of the loop of _generate_explanations: the stripped reply is
\* appended, or the fallback text when the request raised.
explanation(outcome) ==
  IF outcome.kind = "text" THEN Strip(outcome.content) ELSE FallbackExplanation

explanations_after_skipped(so_far, outcome) ==
  IF outcome.kind = "text" THEN Append(so_far, explanation(outcome)) ELSE so_far

explanations_after_reset(so_far, outcome) ==
  IF outcome.kind = "text"
  THEN Append(so_far, explanation(outcome))
  ELSE [n \in 1..(Len(so_far) + 1) |-> FallbackExplanation]

explanations_after(so_far, outcome) == Append(so_far, explanation(outcome))

\* GET /search up to the call of _generate_explanations: the validation of
\* top_k and of the query, then QueryEngine.search embedding the query and
\* searching the store; an exception of either becomes a 500 response.
http_search(query, top_k, embedded, ok) ==
  /\ qpc = "idle"
  /\ UNCHANGED <<ties, storeVars, procVars, uploadVars, sent>>
  /\ explanations' = <<>>
  /\ replies' = <<>>
  /\ IF ~top_k_accepted(top_k)
     THEN /\ ret' = Return("GET /search", RejectedRequest(query, top_k),
                           Response(422, "top_k out of range"))
          /\ calls' = NoCalls
          /\ UNCHANGED <<qpc, qreq, papers>>
     ELSE IF query_is_empty(query)
     THEN /\ ret' = Return("GET /search", RejectedRequest(query, top_k),
                           Response(400, "Query cannot be empty"))
          /\ calls' = NoCalls
          /\ UNCHANGED <<qpc, qreq, papers>>
     ELSE IF embedded = EmbedFailed
     THEN /\ ret' = Return("GET /search",
                           SearchRequest(query, top_k, EmbedFailed, "not called", <<>>),
                           Response(500, "Error searching"))
          /\ calls' = [NoCalls EXCEPT !.embed = 1]
          /\ UNCHANGED <<qpc, qreq, papers>>
     ELSE IF search_outcome(embedded, top_k, NoFilter, ok).kind = "raise"
     THEN /\ ret' = Return("GET /search",
                           SearchRequest(query, top_k, embedded,
                                         IndexDid(embedded, top_k, ok), <<>>),
                           Response(500, "Error searching"))
          /\ calls' = [NoCalls EXCEPT !.embed = 1, !.search = 1]
          /\ UNCHANGED <<qpc, qreq, papers>>
     ELSE /\ ret' = [op |-> "GET /search", kind |-> "pending",
                     args |-> SearchRequest(query, top_k, embedded,
                                           IndexDid(embedded, top_k, ok), <<>>),
                     value |-> None]
          /\ calls' = [NoCalls EXCEPT !.embed = 1, !.search = 1]
          /\ qpc' = "explaining"
          /\ qreq' = [query |-> query, top_k |-> top_k, embedded |-> embedded,
                    index |-> IndexDid(embedded, top_k, ok)]
          /\ papers' = LET results == search_outcome(embedded, top_k, NoFilter, ok).value
                       IN [n \in 1..Len(results) |-> format_paper(results[n])]

\* One pass of the loop of _generate_explanations, for the next paper.
generate_explanation(outcome) ==
  /\ qpc = "explaining"
  /\ Len(replies) < Len(papers)
  /\ explanations' = explanations_after(explanations, outcome)
  /\ replies' = Append(replies, outcome)
  /\ calls' = [calls EXCEPT !.llm = @ + 1]
  /\ sent' = explanation_request(qreq.query, papers[Len(replies) + 1])
  /\ UNCHANGED <<ties, storeVars, procVars, ret, qpc, qreq, papers, uploadVars>>

\* The loop of _generate_explanations has made its pass for every paper,
\* whatever each request did.
loop_is_over_answered ==
  /\ Len(replies) = Len(papers)
  /\ \A n \in 1..Len(replies) : replies[n] /= LLMTimedOut
loop_is_over == Len(replies) = Len(papers)

\* The loop is over: QueryEngine.search returns and GET /search answers.
search_return ==
  /\ qpc = "explaining"
  /\ loop_is_over
  /\ ret' = Return("GET /search", SearchRequest(qreq.query, qreq.top_k, qreq.embedded,
                                 qreq.index, replies),
                   [status |-> 200, query |-> qreq.query, papers |-> papers,
                    explanations |-> explanations])
  /\ qpc' = "idle"
  /\ papers' = <<>>
  /\ explanations' = <<>>
  /\ replies' = <<>>
  /\ UNCHANGED <<ties, storeVars, procVars, qreq, calls, uploadVars, sent>>

\* ------------------------------------------------------------ _clean_text

\* The lines of text.split("\n"), each stripped, the empty ones dropped,
\* joined with "\n".
RECURSIVE stripped_lines(_)
stripped_lines(lines) ==
  IF lines = <<>> THEN <<>>
  ELSE IF Strip(Head(lines)) = <<>> THEN stripped_lines(Tail(lines))
  ELSE <<Strip(Head(lines))>> \o stripped_lines(Tail(lines))

joined_lines(text) == Join(<<"\n">>, stripped_lines(Split(text, "\n")))

\* "  " in text
has_double_space(text) ==
  \E i \in 1..(Len(text) - 1) : text[i] = " " /\ text[i + 1] = " "

\* text.replace("  ", " "): the occurrences found from the left, none
\* overlapping another, each replaced by one space.
replace_unchanged(text) == text

RECURSIVE replace(_)
replace(text) ==
  IF Len(text) < 2 THEN text
  ELSE IF text[1] = " " /\ text[2] = " "
       THEN <<" ">> \o replace(SubSeq(text, 3, Len(text)))
       ELSE <<text[1]>> \o replace(Tail(text))

\* _clean_text as a function: the loop run until its condition fails.
RECURSIVE collapsed(_)
collapsed(text) == IF has_double_space(text) THEN collapsed(replace(text)) ELSE text

_clean_text(text) == collapsed(joined_lines(text))

NotCleaning == [pc |-> "idle", input |-> <<>>, text |-> <<>>, again |-> FALSE]

\* The call of _clean_text up to its while loop.  A call that follows
\* another is given the text the other returned.
clean_begin(text) ==
  /\ cleaning.pc = "idle"
  /\ ret.op = "_clean_text" => text = ret.value
  /\ cleaning' = [pc |-> "loop", input |-> text, text |-> joined_lines(text),
                  again |-> ret.op = "_clean_text"]
  /\ UNCHANGED <<ties, storeVars, procVars, queryVars, upc, ureq, reading, arrived, sent, ret>>

\* One test of the loop condition: one more replace, or the return.
clean_loop ==
  /\ cleaning.pc = "loop"
  /\ IF has_double_space(cleaning.text)
     THEN /\ cleaning' = [cleaning EXCEPT !.text = replace(@)]
          /\ UNCHANGED ret
     ELSE /\ cleaning' = NotCleaning
          /\ ret' = Return("_clean_text",
                           [text |-> cleaning.input, again |-> cleaning.again],
                           cleaning.text)
  /\ UNCHANGED <<ties, storeVars, procVars, queryVars, upc, ureq, reading, arrived, sent>>

\* --------------------------------------------------------- POST /upload_pdf

\* s.endswith(suffix)
EndsWith(s, suffix) ==
  /\ Len(s) >= Len(suffix)
  /\ SubSeq(s, Len(s) - Len(suffix) + 1, Len(s)) = suffix

PdfSuffix == <<".", "p", "d", "f">>
UploadDir == <<"u", "p", "l", "o", "a", "d", "s">>
\* The fewest characters of stripped text an upload is accepted with, the
\* length of the content snippet, and num_keywords of extract_keywords.
MinTextChars == 100
SnippetChars == 500
DefaultNumKeywords == 10
DefaultMaxSentences == 6

\* extract_text_from_pdf raised.
ExtractRaised == [raised |-> TRUE]

\* not text or len(text.strip()) < 100
text_is_insufficient(text) == text = <<>> \/ Len(Strip(text)) < MinTextChars

\* The title override, or else the stripped first line of the text.
upload_title(title, text) ==
  IF title = <<>> THEN Strip(Split(text, "\n")[1]) ELSE title

\* text[:500].strip()
upload_snippet(text) == Strip(SubSeq(text, 1, Min(SnippetChars, Len(text))))

\* The parts of a path as pathlib keeps them: what stands between the
\* slashes, less the empty parts and the "." parts; ".." is kept.
path_parts(name) ==
  SelectSeq(Split(name, "/"), LAMBDA part : part /= <<>> /\ part /= <<".">>)

\* The root of a path: "/" for a name that begins with a slash, "//" for
\* one that begins with exactly two, and none otherwise.
path_root(name) ==
  IF name = <<>> \/ name[1] /= "/" THEN <<>>
  ELSE IF Len(name) >= 2 /\ name[2] = "/" /\ (Len(name) = 2 \/ name[3] /= "/")
  THEN <<"/", "/">>
  ELSE <<"/">>

\* str(UPLOAD_DIR / filename): a name with a root replaces the directory,
\* any other is joined to it part by part.
file_path(filename) ==
  IF path_root(filename) /= <<>>
  THEN path_root(filename) \o Join(<<"/">>, path_parts(filename))
  ELSE Join(<<"/">>, <<UploadDir>> \o path_parts(filename))

upload_metadata(filename) == [filename |-> filename, file_path |-> file_path(filename)]

\* An upload as its handler begins: before holds the entries of the index
\* when the request arrived, resumed those when the handler went on after
\* the read of the file, and file how far the saving of the file came.
NewUpload(filename, title) ==
  [filename |-> filename, title |-> title, before |-> records,
   resumed |-> records, file |-> "not opened", steps |-> <<>>,
   extracted |-> NotCalled, summarized |-> NotCalled, keyworded |-> NotCalled,
   embedded |-> NotEmbedded, text |-> <<>>, summary |-> <<>>, keywords |-> <<>>]

UploadResponse(u, status, detail) ==
  Return("POST /upload_pdf", u, Response(status, detail))

\* upload_pdf up to content = await file.read(): a name that does not end
\* with ".pdf" is answered with 400, an open() that raises with 500, and
\* otherwise the handler waits for the content of the file, while the
\* event loop can serve other requests.
upload_pdf(filename, title, opened) ==
  /\ upc = "idle"
  /\ arrived < MaxUploads
  /\ arrived' = arrived + 1
  /\ IF ~EndsWith(filename, PdfSuffix)
     THEN /\ ret' = UploadResponse(NewUpload(filename, title), 400, "File must be a PDF")
          /\ UNCHANGED reading
     ELSE IF ~opened
     THEN /\ ret' = UploadResponse([NewUpload(filename, title) EXCEPT !.file = "open failed"],
                                   500, "Error processing PDF")
          /\ UNCHANGED reading
     ELSE /\ reading' = Append(reading, [NewUpload(filename, title) EXCEPT !.file = "reading"])
          /\ UNCHANGED ret
  /\ UNCHANGED <<ties, cleaning, upc, ureq, storeVars, procVars, queryVars, sent>>

\* The reading sequence without its n-th upload.
without(waiting, n) == SubSeq(waiting, 1, n - 1) \o SubSeq(waiting, n + 1, Len(waiting))

\* The handler of a waiting upload goes on: file.read() has returned or
\* raised, and the content is written; an exception of either becomes 500.
upload_save(n, saved) ==
  /\ upc = "idle"
  /\ n \in 1..Len(reading)
  /\ reading' = without(reading, n)
  /\ ureq' = [reading[n] EXCEPT !.resumed = records,
                                !.file = IF saved THEN "saved" ELSE "save failed"]
  /\ IF saved
     THEN /\ upc' = "extract"
          /\ UNCHANGED ret
     ELSE /\ ret' = UploadResponse(ureq', 500, "Error processing PDF")
          /\ upc' = "idle"
  /\ UNCHANGED <<ties, cleaning, arrived, storeVars, procVars, queryVars, sent>>

\* extract_text_from_pdf and the check of the text: an exception becomes
\* 500, too little text 400.
upload_extract(extracted) ==
  /\ upc = "extract"
  /\ ureq' = [ureq EXCEPT !.steps = Append(@, "extract"), !.extracted = extracted,
                          !.text = IF extracted = ExtractRaised THEN <<>> ELSE extracted]
  /\ IF extracted = ExtractRaised
     THEN /\ ret' = UploadResponse(ureq', 500, "Error processing PDF")
          /\ upc' = "idle"
     ELSE IF text_is_insufficient(extracted)
     THEN /\ ret' = UploadResponse(ureq', 400, "Could not extract sufficient text from PDF")
          /\ upc' = "idle"
     ELSE /\ upc' = "summarize"
          /\ UNCHANGED ret
  /\ UNCHANGED <<ties, cleaning, reading, arrived, storeVars, procVars, queryVars, sent>>

\* summary = await summarize_text(text)
upload_summarize(outcome) ==
  /\ upc = "summarize"
  /\ sent' = Sent("summarize", <<ureq.text>>, <<truncated(ureq.text)>>)
  /\ ureq' = [ureq EXCEPT !.steps = Append(@, "summarize"), !.summarized = outcome,
                          !.summary = Strip(outcome.content)]
  /\ IF reply_failed(outcome)
     THEN /\ ret' = UploadResponse(ureq', 500, "Error processing PDF")
          /\ upc' = "idle"
     ELSE /\ upc' = "keywords"
          /\ UNCHANGED ret
  /\ UNCHANGED <<ties, cleaning, reading, arrived, storeVars, procVars, queryVars>>

\* keywords = await extract_keywords(text)
upload_keywords(outcome) ==
  /\ upc = "keywords"
  /\ sent' = Sent("extract_keywords", <<ureq.text>>, <<truncated(ureq.text)>>)
  /\ ureq' = [ureq EXCEPT !.steps = Append(@, "keywords"), !.keyworded = outcome,
                          !.keywords = parsed_keywords(outcome.content, DefaultNumKeywords)]
  /\ IF reply_failed(outcome)
     THEN /\ ret' = UploadResponse(ureq', 500, "Error processing PDF")
          /\ upc' = "idle"
     ELSE /\ upc' = "store"
          /\ UNCHANGED ret
  /\ UNCHANGED <<ties, cleaning, reading, arrived, storeVars, procVars, queryVars>>

\* The rest of upload_pdf: the title and the snippet, embedder.embed, and
\* vector_store.add_paper; an exception of either becomes 500.
upload_store(embedded, ok) ==
  /\ upc = "store"
  /\ upc' = "idle"
  /\ IF embedded = EmbedFailed
     THEN /\ ureq' = [ureq EXCEPT !.steps = Append(@, "embed"), !.embedded = embedded]
          /\ ret' = UploadResponse(ureq', 500, "Error processing PDF")
          /\ UNCHANGED storeVars
     ELSE /\ ureq' = [ureq EXCEPT !.steps = @ \o <<"embed", "add_paper">>,
                                  !.embedded = embedded]
          /\ \E id \in uuid4 :
               /\ issued' = issued \cup {id}
               /\ StoreWrite(id,
                             AddArgs(upload_title(ureq.title, ureq.text), ureq.summary,
                                     ureq.keywords, upload_snippet(ureq.text), ureq.text,
                                     embedded, upload_metadata(ureq.filename)),
                             ok)
               /\ ret' = IF ok /\ ~AddRejected(embedded)
                         THEN Return("POST /upload_pdf", ureq',
                                     [status |-> 200, paper_id |-> id,
                                      title |-> upload_title(ureq.title, ureq.text),
                                      summary |-> ureq.summary,
                                      keywords |-> ureq.keywords,
                                      content_snippet |-> upload_snippet(ureq.text)])
                         ELSE UploadResponse(ureq', 500, "Error processing PDF")
  /\ UNCHANGED <<ties, cleaning, reading, arrived, procVars, queryVars, sent>>

\* ------------------------------------------------------------------ inputs

\* The papers the store specification adds: two titles, two directions and
\* one embedding of the wrong length.
StorePapers ==
  {[title |-> "Paper A", embedding |-> Unit(1, EmbeddingDim)],
   [title |-> "Paper B", embedding |-> Unit(2, EmbeddingDim)],
   [title |-> "Paper B", embedding |-> LongVector]}
\* A vector near Unit(1, n), as [1, 0, 0.01] is near [1, 0, 0].
Near1(n) == [j \in 1..n |-> IF j = 1 THEN 100 ELSE IF j = n THEN 1 ELSE 0]
StoreQueries == {Unit(1, EmbeddingDim), Ones(EmbeddingDim), LongVector}
\* The queries of the ranking specification: along a stored vector, near
\* one, and at the same distance from both.
RankingQueries == {Unit(1, EmbeddingDim), Near1(EmbeddingDim), Ones(EmbeddingDim)}
TopKs == 0..(MaxIds + 1)
\* The dimensions of the Embedder a process can be started with: the one the
\* collection was filled with, and the one of another model.
EmbedderDims == {EmbeddingDim, EmbeddingDim + 1}
Filters == {NoFilter, [key |-> "title", value |-> "Paper A"]}

\* The keyword lists of the round-trip specification: none, one, two in
\* both orders, a keyword holding a comma, an empty keyword alone and an
\* empty keyword before another.
KeywordLists ==
  {<<>>,
   <<Keyword("m")>>,
   <<Keyword("m"), Keyword("n")>>,
   <<Keyword("n"), Keyword("m")>>,
   << <<"m", ",", "n">> >>,
   << <<>> >>,
   << <<>>, Keyword("m")>>}
\* The extra metadata a caller passes: none, the source file name as
\* upload_pdf passes it, and a key named like a field of the paper.
Metadatas == {NoMetadata, [filename |-> "a.pdf"], [title |-> "Other"]}

MetaPapers ==
  {AddArgs("Paper A", "Summary", kw, "Snippet", <<"x">>, Unit(1, EmbeddingDim), m) :
     kw \in KeywordLists, m \in Metadatas}
  \cup {AddArgs("Paper B", "Abstract", <<Keyword("m")>>, "Text", <<>>,
                Unit(2, EmbeddingDim), NoMetadata)}

\* Queries: empty, whitespace only, a carriage return only, a word, a word
\* after a space.
Queries == {<<>>, <<" ", "\t">>, <<"\r">>, <<"q">>, <<" ", "q">>}
HttpTopKs == {TopKMin - 1, TopKMin, TopKMax, TopKMax + 1}
EmbedOutcomes == {EmbedFailed, Ones(EmbeddingDim)}
LLMOutcomes ==
  {LLMRaised, LLMTimedOut, LLMNoContent, LLMText(<<"x">>), LLMText(<<" ", "y", "\n">>)}
QueryPaper ==
  AddArgs("Paper A", "Summary", <<Keyword("m"), Keyword("n")>>, "Snippet", <<"x">>,
          Unit(1, EmbeddingDim), NoMetadata)

\* The texts _clean_text is given: every text of at most MaxCleanLen
\* characters over a letter, the space, the newline and the form feed that
\* pdfminer puts between pages.
CleanChars == {"a", " ", "\n", "\f"}
CleanTexts == UNION {[1..n -> CleanChars] : n \in 0..MaxCleanLen}

\* A text of n characters.
Xs(n) == [i \in 1..n |-> "x"]
\* File names: a PDF, a PDF named with a "." part, and a text file.
Filenames ==
  {<<"a">> \o PdfSuffix, <<".", "/", "a">> \o PdfSuffix, <<"a", ".", "t", "x", "t">>}
\* Title overrides: none and one.
TitleOverrides == {<<>>, <<"O">>}
\* The uploads: each file name, the plain PDF without a title override and
\* the other names with one.
Uploads ==
  {u \in Filenames \X TitleOverrides : u[2] = <<>> <=> u[1] = <<"a">> \o PdfSuffix}
\* What extract_text_from_pdf does: raises, no text, one character short of
\* enough, enough only when the surrounding whitespace counts, just enough,
\* and enough after a first line.
Extractions ==
  {ExtractRaised, <<>>, Xs(MinTextChars - 1),
   <<" ">> \o Xs(MinTextChars - 1) \o <<"\n">>,
   Xs(MinTextChars),
   <<"T", "\n">> \o Xs(MinTextChars)}
SummaryOutcomes == {LLMRaised, LLMNoContent, LLMText(<<" ", "s">>)}
KeywordOutcomes == {LLMRaised, LLMNoContent, LLMText(<<"m", ",", " ", "n">>)}
UploadEmbedOutcomes == {EmbedFailed, Unit(1, EmbeddingDim)}

\* Texts for the generative-text service: short, one character under the
\* limit, at the limit, and one over.
LLMTexts == {<<"x">>, Xs(max_chars - 1), Xs(max_chars), Xs(max_chars + 1)}
ShortTexts == {<<"x">>, <<"x", " ", "y">>}
\* Requested keyword counts, the default among them, and a negative one.
KeywordCounts == {-1, 0, 1, 2, 3, DefaultNumKeywords}
\* Replies to a keywords request: "m, n", " m ,, n ,", "n,m,o", "", ",",
\* " m\n" and "m n,\t,o".
KeywordReplies ==
  {LLMRaised, LLMNoContent,
   LLMText(<<"m", ",", " ", "n">>),
   LLMText(<<" ", "m", " ", ",", ",", " ", "n", " ", ",">>),
   LLMText(<<"n", ",", "m", ",", "o">>),
   LLMText(<<>>),
   LLMText(<<",">>),
   LLMText(<<" ", "m", "\n">>),
   LLMText(<<"m", " ", "n", ",", "\t", ",", "o">>)}
\* A paper whose title is longer than max_chars, as upload_pdf takes it
\* from a text whose first line is that long.
LongPaper ==
  AddArgs(Xs(max_chars + 1), <<"s">>, <<Keyword("m"), Keyword("n")>>, <<"x">>,
          <<"x">>, Unit(1, EmbeddingDim), NoMetadata)

\* ---------------------------------------------------------- specifications

NoUpload == NewUpload(<<>>, <<>>)

Init ==
  /\ records = [i \in {} |-> None]
  /\ order = <<>>
  /\ dimension = 0
  /\ issued = {}
  /\ inputs = [i \in {} |-> None]
  /\ ret = Return("init", None, None)
  /\ pc = [p \in Procs |-> "idle"]
  /\ paper_id = [p \in Procs |-> 0]
  /\ qpc = "idle"
  /\ qreq = [query |-> <<>>, top_k |-> 0, embedded |-> NotEmbedded, index |-> "not called"]
  /\ papers = <<>>
  /\ explanations = <<>>
  /\ replies = <<>>
  /\ calls = [embed |-> 0, search |-> 0, llm |-> 0]
  /\ upc = "idle"
  /\ ureq = NoUpload
  /\ reading = <<>>
  /\ arrived = 0
  /\ sent = NothingSent
  /\ ties \in TieOrders
  /\ tally = [added |-> 0, deleted |-> 0, ids |-> <<>>]
  /\ cleaning = NotCleaning

\* The VectorStore called directly, as the repository's tests call it, and
\* through the DELETE handler.
Next ==
  \/ \E p \in StorePapers :
       add_paper(p.title, "Summary", <<Keyword("m")>>, "Snippet", <<"x">>,
                 p.embedding, NoMetadata, TRUE)
  \/ \E q \in StoreQueries, k \in TopKs, f \in Filters : search(q, k, f, TRUE)
  \/ \E id \in Ids, ok \in BOOLEAN : get_paper(id, ok)
  \/ \E ok \in BOOLEAN : list_all_papers(ok)
  \/ \E id \in Ids, ok \in BOOLEAN : delete_paper(id, ok)
  \/ \E ok \in BOOLEAN : count(ok)
  \/ \E id \in Ids : http_delete_paper(id, TRUE, TRUE)

Spec == Init /\ [][Next]_vars

\* add_paper with every shape of keywords and extra metadata, read back with
\* get_paper.
NextMeta ==
  \/ \E a \in MetaPapers :
       /\ Cardinality(issued) < MaxMetaPapers
       /\ add_paper(a.title, a.summary, a.keywords, a.content_snippet,
                    a.full_text, a.embedding, a.metadata, TRUE)
  \/ \E id \in Ids, ok \in BOOLEAN : get_paper(id, ok)
  \/ \E id \in Ids : delete_paper(id, TRUE)

SpecMeta == Init /\ [][NextMeta]_vars

\* Concurrent add_paper calls on an empty store, one per caller, their
\* statements interleaved in every order.
NextConcurrent ==
  \/ \E p \in Procs : add_paper_begin(p)
  \/ \E p \in Procs, ok \in BOOLEAN : add_paper_store(p, ok)
  \/ \E ok \in BOOLEAN : count(ok)

SpecConcurrent == Init /\ [][NextConcurrent]_vars

\* Searches of a store that papers are added to and deleted from.
NextRanking ==
  \/ \E p \in StorePapers :
       add_paper(p.title, "Summary", <<Keyword("m")>>, "Snippet", <<"x">>,
                 p.embedding, NoMetadata, TRUE)
  \/ \E id \in Ids : delete_paper(id, TRUE)
  \/ \E q \in RankingQueries, k \in TopKs : search(q, k, NoFilter, TRUE)

SpecRanking == Init /\ [][NextRanking]_vars

\* add_paper and delete_paper calls interleaved with search, get_paper and
\* list_all_papers calls: every call of the collection is one step, and any
\* caller's next step can come between two steps of another.
NextReaders ==
  \/ \E p \in Procs : add_paper_begin(p)
  \/ \E p \in Procs, ok \in BOOLEAN : add_paper_store(p, ok)
  \/ \E id \in Ids : delete_paper(id, TRUE)
  \/ \E q \in StoreQueries, k \in TopKs : search(q, k, NoFilter, TRUE)
  \/ \E id \in Ids : get_paper(id, TRUE)
  \/ list_all_papers(TRUE)

SpecReaders == Init /\ [][NextReaders]_vars

\* Uploads: the handler of one runs from the read of its file to its answer
\* without a pause, and others can arrive and go on while it waits for the
\* read.
NextUpload ==
  \/ \E u \in Uploads, opened \in BOOLEAN : upload_pdf(u[1], u[2], opened)
  \/ \E n \in 1..MaxUploads, saved \in BOOLEAN : upload_save(n, saved)
  \/ \E extracted \in Extractions : upload_extract(extracted)
  \/ \E outcome \in SummaryOutcomes : upload_summarize(outcome)
  \/ \E outcome \in KeywordOutcomes : upload_keywords(outcome)
  \/ \E embedded \in UploadEmbedOutcomes, ok \in BOOLEAN : upload_store(embedded, ok)

SpecUpload == Init /\ [][NextUpload]_vars

\* The requests to the generative-text service: summaries and keywords of
\* texts around the limit, and the explanations of a search whose hits have
\* a long title.
NextLLM ==
  \/ \E text \in LLMTexts, outcome \in {LLMRaised, LLMText(<<" ", "s">>)} :
       qpc = "idle" /\ summarize(text, DefaultMaxSentences, outcome)
  \/ \E text \in LLMTexts, outcome \in {LLMNoContent, LLMText(<<"m", ",", " ", "n">>)} :
       qpc = "idle" /\ extract_keywords(text, DefaultNumKeywords, outcome)
  \/ /\ qpc = "idle"
     /\ add_paper(LongPaper.title, LongPaper.summary, LongPaper.keywords,
                  LongPaper.content_snippet, LongPaper.full_text,
                  LongPaper.embedding, LongPaper.metadata, TRUE)
  \/ http_search(<<"q">>, TopKMin, Unit(1, EmbeddingDim), TRUE)
  \/ \E outcome \in {LLMRaised, LLMText(<<"x">>)} : generate_explanation(outcome)
  \/ search_return

SpecLLM == Init /\ [][NextLLM]_vars

\* extract_keywords with every reply and every requested count.
NextKeywords ==
  \E text \in ShortTexts, n \in KeywordCounts, outcome \in KeywordReplies :
    extract_keywords(text, n, outcome)

SpecKeywords == Init /\ [][NextKeywords]_vars

\* Papers are added and deleted, and the process is restarted on the same
\* persist directory, with the same Embedder or with another one.
NextReopen ==
  \/ \E p \in StorePapers :
       add_paper(p.title, "Summary", <<Keyword("m")>>, "Snippet", <<"x">>,
                 p.embedding, NoMetadata, TRUE)
  \/ \E id \in Ids : delete_paper(id, TRUE)
  \/ \E id \in Ids : get_paper(id, TRUE)
  \/ \E d \in EmbedderDims, ok \in BOOLEAN : VectorStore_init(d, ok)

SpecReopen == Init /\ [][NextReopen]_vars

\* Papers are added and deleted, and GET /papers/{paper_id} is served.
NextPapers ==
  \/ \E p \in StorePapers :
       add_paper(p.title, "Summary", <<Keyword("m")>>, "Snippet", <<"x">>,
                 p.embedding, NoMetadata, TRUE)
  \/ \E id \in Ids : delete_paper(id, TRUE)
  \/ \E id \in Ids, ok \in BOOLEAN : http_get_paper(id, ok)

SpecPapers == Init /\ [][NextPapers]_vars

\* Every operation of the store and QueryEngine.search, each handler run to
\* its end before the next starts.
NextFrame ==
  \/ /\ qpc = "idle"
     /\ \E p \in StorePapers :
          add_paper(p.title, "Summary", <<Keyword("m")>>, "Snippet", <<"x">>,
                    p.embedding, NoMetadata, TRUE)
  \/ qpc = "idle" /\ \E id \in Ids : delete_paper(id, TRUE)
  \/ qpc = "idle" /\ \E k \in {1, MaxIds} : search(Unit(1, EmbeddingDim), k, NoFilter, TRUE)
  \/ qpc = "idle" /\ \E id \in Ids : get_paper(id, TRUE)
  \/ qpc = "idle" /\ list_all_papers(TRUE)
  \/ qpc = "idle" /\ count(TRUE)
  \/ \E top_k \in {TopKMin, TopKMax} : http_search(<<"q">>, top_k, Unit(1, EmbeddingDim), TRUE)
  \/ \E outcome \in {LLMRaised, LLMText(<<"x">>)} : generate_explanation(outcome)
  \/ search_return

SpecFrame == Init /\ [][NextFrame]_vars

\* _clean_text is called on every short text and then on what it returned,
\* one call at a time.  The loop is sequential code of the call itself, so
\* its next test is taken whenever there is one to take.
NextClean ==
  \/ \E text \in CleanTexts : clean_begin(text)
  \/ clean_loop

SpecClean == Init /\ [][NextClean]_vars /\ WF_cleaning(clean_loop)

\* Papers are added, and GET /search requests are served one at a time: the
\* handler runs to its end on the event loop before another handler starts.
NextQuery ==
  \/ /\ qpc = "idle"
     /\ add_paper(QueryPaper.title, QueryPaper.summary, QueryPaper.keywords,
                  QueryPaper.content_snippet, QueryPaper.full_text,
                  QueryPaper.embedding, QueryPaper.metadata, TRUE)
  \/ \E query \in Queries, top_k \in HttpTopKs, embedded \in EmbedOutcomes,
        ok \in BOOLEAN :
       http_search(query, top_k, embedded, ok)
  \/ \E outcome \in LLMOutcomes : generate_explanation(outcome)
  \/ search_return

SpecQuery == Init /\ [][NextQuery]_vars

\* The same requests with the scheduling the code gives them: the handler
\* takes its own step, the return after the loop, whenever it can, and every
\* pass of the loop ends.  create() is a blocking call of the openai client,
\* built without a timeout argument, which ends each request by itself: with
\* the answer, with an error, or with its timeout error once the service has
\* not answered within the client's own request timeout.
SpecQueryFair ==
  /\ SpecQuery
  /\ WF_qpc(search_return)
  /\ WF_replies(\E outcome \in LLMOutcomes : generate_explanation(outcome))

\* ------------------------------------------------------------------ claims

ResultIds(results) == {results[n].id : n \in 1..Len(results)}

\* The call is a search without a filter that the collection answers: the
\* storage is reachable, top_k is positive and the query vector has the
\* collection's dimension.
IsAnswerableSearch ==
  /\ ret.op = "search"
  /\ ret.args.filter_metadata = NoFilter
  /\ ret.args.ok
  /\ ret.args.top_k >= 1
  /\ (dimension = 0 \/ Len(ret.args.query_embedding) = dimension)

\* C4: VectorStore.search(v, top_k) without a filter returns, without
\* raising, min(top_k, count()) results, each a stored entry and none twice;
\* when top_k exceeds the number of stored entries the results are exactly
\* all the stored entries.
C4_SearchReturnsMinTopKCount ==
  IsAnswerableSearch =>
    /\ ret.kind = "return"
    /\ Len(ret.value) = Min(ret.args.top_k, count_value(TRUE))
    /\ Len(ret.value) <= ret.args.top_k
    /\ Cardinality(ResultIds(ret.value)) = Len(ret.value)
    /\ ResultIds(ret.value) \subseteq DOMAIN records
    /\ (ret.args.top_k > count_value(TRUE) => ResultIds(ret.value) = DOMAIN records)

C4_Witness ==
  /\ IsAnswerableSearch
  /\ ret.kind = "return"
  /\ count_value(TRUE) = 2
  /\ ret.args.top_k = 3
  /\ Len(ret.value) = 2

\* C5: after delete_paper(id) of a stored id has returned True, get_paper(id)
\* is None, id is in no listing and in no search result, and count() is one
\* less than before the delete.
C5_DeleteRemovesEntry ==
  (ret.op = "delete_paper" /\ ret.args.stored /\ ret.value = TRUE) =>
    LET id == ret.args.paper_id
    IN /\ get_paper_value(id, TRUE) = None
       /\ id \notin ResultIds(list_all_papers_value(TRUE))
       /\ \A q \in StoreQueries, k \in TopKs, f \in Filters :
            search_outcome(q, k, f, TRUE).kind = "return"
              => id \notin ResultIds(search_outcome(q, k, f, TRUE).value)
       /\ count_value(TRUE) = ret.args.count_before - 1

C5_Witness ==
  /\ ret.op = "delete_paper"
  /\ ret.args.stored
  /\ ret.value = TRUE
  /\ ret.args.count_before = 2
  /\ count_value(TRUE) = 1

\* C6: delete_paper(id) for an id that is not in the store raises nothing,
\* leaves the store unchanged and returns False.
C6_DeleteAbsentReturnsFalse ==
  (ret.op = "delete_paper" /\ ~ret.args.stored) =>
    /\ ret.kind = "return"
    /\ ret.args.unchanged
    /\ ret.value = FALSE

\* C10: add_paper with an embedding whose length is not the Embedder's
\* dimension D raises and leaves the store unchanged, and every stored
\* embedding has exactly D components.
C10_EveryEmbeddingHasDimensionD ==
  /\ \A i \in DOMAIN records : Len(records[i].embedding) = EmbeddingDim
  /\ (ret.op = "add_paper" /\ Len(ret.args.embedding) /= EmbeddingDim) =>
       (ret.kind = "raise" /\ ret.args.unchanged)

CoreKeys == {"title", "summary", "keywords", "content_snippet", "full_text_length"}

\* get_paper(id) was called, with the storage reachable, for an id that
\* add_paper returned and no delete_paper has removed since, and the add
\* passed no extra metadata key named like a field of the paper.
IsGetOfAddedPaper ==
  /\ ret.op = "get_paper"
  /\ ret.args.ok
  /\ ret.args.paper_id \in DOMAIN inputs
  /\ DOMAIN inputs[ret.args.paper_id].metadata \cap CoreKeys = {}

\* What get_paper returned is what add_paper was given.
GetReturnsWhatWasAdded ==
  LET a == inputs[ret.args.paper_id]
  IN /\ ret.value /= None
     /\ ret.value.id = ret.args.paper_id
     /\ ret.value.metadata.title = a.title
     /\ ret.value.metadata.summary = a.summary
     /\ ret.value.metadata.content_snippet = a.content_snippet
     /\ ret.value.metadata.full_text_length = Len(a.full_text)
     /\ keywords_view(ret.value.metadata) = a.keywords

\* No keyword holds a comma, and the list is not one empty keyword.
KeywordsSurviveJoin(keywords) ==
  /\ keywords /= << <<>> >>
  /\ \A n \in 1..Len(keywords) : \A i \in 1..Len(keywords[n]) : keywords[n][i] /= ","

\* C3 as stated: add_paper followed by get_paper(id) returns the title,
\* summary, snippet and text length given, and keywords that split back into
\* the keyword sequence given, for every keyword sequence.
C3_RoundTripEveryKeywords == IsGetOfAddedPaper => GetReturnsWhatWasAdded

\* C3 as amended: the same, for keyword sequences in which no keyword holds
\* a comma and which are not the single empty keyword.
C3_RoundTripCommaFreeKeywords ==
  (IsGetOfAddedPaper /\ KeywordsSurviveJoin(inputs[ret.args.paper_id].keywords))
    => GetReturnsWhatWasAdded

C3_Witness ==
  /\ IsGetOfAddedPaper
  /\ inputs[ret.args.paper_id].keywords = <<Keyword("n"), Keyword("m")>>
  /\ "filename" \in DOMAIN inputs[ret.args.paper_id].metadata
  /\ GetReturnsWhatWasAdded

Returned == {p \in Procs : pc[p] = "returned"}

\* C7: once no concurrent add_paper call is still running, the ids the calls
\* returned are pairwise distinct and count() is the number of calls that
\* returned.
C7_ConcurrentAddsDistinctIds ==
  (\A p \in Procs : pc[p] /= "add") =>
    /\ \A p \in Returned : \A r \in Returned : p /= r => paper_id[p] /= paper_id[r]
    /\ count_value(TRUE) = Cardinality(Returned)

C7_Witness ==
  /\ Returned = Procs
  /\ Cardinality(Procs) >= 2
  /\ count_value(TRUE) = Cardinality(Procs)
  /\ ret.op = "count"
  /\ ret.value = Cardinality(Procs)

IsSearchResponse == ret.op = "GET /search" /\ ret.kind = "return"
SearchReturned == IsSearchResponse /\ ret.value.status = 200

\* C1: every search that returns has as many explanations as papers, and as
\* many as requests were made to the generative-text service, whichever of
\* them failed.
C1_ExplanationsMatchPapers ==
  SearchReturned =>
    /\ Len(ret.value.explanations) = Len(ret.value.papers)
    /\ Len(ret.args.replies) = Len(ret.value.papers)
    /\ Len(ret.value.papers) <= ret.args.top_k

C1_Witness ==
  /\ SearchReturned
  /\ Len(ret.value.papers) = 2
  /\ Len(ret.value.explanations) = 2
  /\ ret.args.replies[1].kind = "raise"
  /\ ret.args.replies[2].kind = "text"

\* C2: in a search that returned, and at every pass of the loop before, the
\* explanation of hit i is the fallback text when the request for hit i
\* failed and the stripped reply for hit i when it succeeded, so a failure
\* changes no other slot; and a response of status 500 was decided before
\* any explanation was requested, so no such failure makes the call fail.
C2_FallbackOnlyInFailedSlot ==
  /\ SearchReturned =>
       \A i \in 1..Len(ret.value.papers) :
         /\ ret.args.replies[i].kind /= "text"
              => ret.value.explanations[i] = FallbackExplanation
         /\ ret.args.replies[i].kind = "text"
              => ret.value.explanations[i] = Strip(ret.args.replies[i].content)
  /\ (IsSearchResponse /\ ret.value.status = 500) => calls.llm = 0
  /\ qpc = "explaining" =>
       /\ Len(explanations) = Len(replies)
       /\ \A i \in 1..Len(replies) :
            explanations[i] = IF replies[i].kind = "text"
                              THEN Strip(replies[i].content) ELSE FallbackExplanation

C2_Witness ==
  /\ SearchReturned
  /\ Len(ret.value.papers) = 2
  /\ ret.args.replies[1] = LLMText(<<" ", "y", "\n">>)
  /\ ret.args.replies[2] = LLMRaised
  /\ ret.value.explanations = << <<"y">>, FallbackExplanation >>

\* C8: a request with top_k outside [1, 20] is answered with the validation
\* error, never with results, and neither the embedder nor the index nor the
\* generative-text service was called for it.
C8_TopKOutOfRangeRejected ==
  (ret.op = "GET /search" /\ (ret.args.top_k < TopKMin \/ ret.args.top_k > TopKMax)) =>
    /\ ret.kind = "return"
    /\ ret.value.status = 422
    /\ calls = NoCalls

C8_Witness ==
  /\ IsSearchResponse
  /\ ret.args.top_k = TopKMax + 1
  /\ ret.args.query = <<"q">>
  /\ ret.value.status = 422
  /\ Cardinality(DOMAIN records) >= 1

\* C9: a request whose query is empty or only whitespace is answered with a
\* validation error, and neither the embedder nor the index nor the
\* generative-text service was called for it.
C9_EmptyQueryRejected ==
  (ret.op = "GET /search" /\ Strip(ret.args.query) = <<>>) =>
    /\ ret.kind = "return"
    /\ ret.value.status \in {400, 422}
    /\ (top_k_accepted(ret.args.top_k) => ret.value.status = 400)
    /\ calls = NoCalls

C9_Witness ==
  /\ IsSearchResponse
  /\ ret.args.query = <<" ", "\t">>
  /\ ret.args.top_k = TopKMin
  /\ ret.value.status = 400
  /\ Cardinality(DOMAIN records) >= 1

\* The embedder returned a vector for the query.
Embedded(e) == e /= NotEmbedded /\ e /= EmbedFailed

\* QueryEngine.search was called, and the embedder failed on the query or
\* the index failed on the search.
SearchFailedInside ==
  /\ ret.op = "GET /search"
  /\ (ret.args.embedded = EmbedFailed \/ ret.args.index = "raised")

\* C11: when embedding the query or searching the index fails, the call
\* fails as a whole: the caller gets the error, never a response with a hit
\* list, and no explanation request is issued for it.
C11_SearchFailureIsFatal ==
  /\ SearchFailedInside =>
       /\ ret.kind = "return"
       /\ ret.value.status = 500
       /\ calls.llm = 0
       /\ calls.search = (IF ret.args.embedded = EmbedFailed THEN 0 ELSE 1)
  /\ qpc = "explaining" =>
       /\ Embedded(qreq.embedded)
       /\ qreq.index = "answered"
  /\ SearchReturned =>
       (Embedded(ret.args.embedded) /\ ret.args.index = "answered")

C11_Witness ==
  /\ SearchFailedInside
  /\ Embedded(ret.args.embedded)
  /\ ret.args.index = "raised"
  /\ Cardinality(DOMAIN records) >= 1
  /\ ret.value.status = 500

\* C12: when the storage fails during get_paper, list_all_papers or count,
\* the call fails: it does not return None, an empty list or 0, which are
\* the answers for an absent paper and for an empty collection.
C12_StorageFailureReported ==
  (ret.op \in {"get_paper", "list_all_papers", "count"} /\ ~ret.args.ok) =>
    /\ ret.kind = "raise"
    /\ ret.value \notin {None, <<>>, 0}

\* The entry a read returned for id holds all of what add_paper was given
\* for id: the metadata, and the vector the distance is measured to.
WholeEntry(entry) ==
  /\ entry.id \in DOMAIN inputs
  /\ LET a == inputs[entry.id]
     IN /\ entry.metadata = paper_metadata(a.title, a.summary, a.keywords,
                                           a.content_snippet, a.full_text, a.metadata)
        /\ entry.document = a.content_snippet
        /\ records[entry.id].embedding = a.embedding

\* C13: at every point of every interleaving of add_paper and delete_paper
\* calls, each entry that search, get_paper or list_all_papers returns is a
\* whole entry: the id with both its vector and its metadata.
C13_ReadsSeeWholeEntries ==
  /\ \A id \in Ids :
       get_paper_value(id, TRUE) /= None => WholeEntry(get_paper_value(id, TRUE))
  /\ \A n \in 1..Len(list_all_papers_value(TRUE)) :
       WholeEntry(list_all_papers_value(TRUE)[n])
  /\ \A q \in StoreQueries, k \in TopKs :
       LET out == search_outcome(q, k, NoFilter, TRUE)
       IN out.kind = "return" =>
            \A n \in 1..Len(out.value) :
              /\ WholeEntry(out.value[n])
              /\ out.value[n].distance =
                   CosineDistance(q, inputs[out.value[n].id].embedding)
  /\ DOMAIN records = DOMAIN inputs

C13_Witness ==
  /\ \E p \in Procs : pc[p] = "add"
  /\ \E p \in Procs : pc[p] = "returned"
  /\ ret.op = "search"
  /\ ret.kind = "return"
  /\ Len(ret.value) = 1
  /\ WholeEntry(ret.value[1])

UploadOrder == <<"extract", "summarize", "keywords", "embed", "add_paper">>
IsPrefix(a, b) == Len(a) <= Len(b) /\ a = SubSeq(b, 1, Len(a))
IsUploadResponse == ret.op = "POST /upload_pdf"

\* A step before add_paper failed or rejected the upload u: the name is not
\* a PDF's, the file could not be opened, read or written, the extraction
\* raised or gave fewer than 100 characters, the summary or the keywords
\* request failed, or the embedder raised.
EarlierStepFailed(u) ==
  \/ ~EndsWith(u.filename, PdfSuffix)
  \/ u.file \in {"open failed", "save failed"}
  \/ u.extracted = ExtractRaised
  \/ (u.extracted /= NotCalled /\ u.extracted /= ExtractRaised
        /\ Len(Strip(u.extracted)) < MinTextChars)
  \/ (u.summarized /= NotCalled /\ u.summarized.kind /= "text")
  \/ (u.keyworded /= NotCalled /\ u.keyworded.kind /= "text")
  \/ u.embedded = EmbedFailed

\* The steps of the answered upload ran in order, and add_paper only after
\* every earlier step succeeded.
StepsInOrder ==
  /\ IsPrefix(ureq.steps, UploadOrder)
  /\ upc /= "idle" => ~EarlierStepFailed(ureq)
  /\ IsUploadResponse =>
       /\ IsPrefix(ret.args.steps, UploadOrder)
       /\ EarlierStepFailed(ret.args) =>
            /\ ret.value.status \in {400, 500}
            /\ \A n \in 1..Len(ret.args.steps) : ret.args.steps[n] /= "add_paper"
       /\ ret.value.status = 200 =>
            /\ ret.args.steps = UploadOrder
            /\ ~EarlierStepFailed(ret.args)

\* C14 as stated: the steps of an upload run in the order extract,
\* summarize, keywords, embed, add_paper; add_paper is called only when
\* every earlier step succeeded; and when an upload that an earlier step
\* failed or rejected is answered, the index holds exactly the entries it
\* held when the upload arrived.
C14_FailedUploadLeavesIndexAsBefore ==
  /\ StepsInOrder
  /\ (IsUploadResponse /\ EarlierStepFailed(ret.args)) => records = ret.args.before

\* C14: the steps of an upload run in the order extract, summarize,
\* keywords, embed, add_paper; add_paper is called only when every earlier
\* step succeeded; and an upload that an earlier step failed or rejected
\* adds no entry itself: from the moment its handler goes on after the read
\* of its file, the index holds exactly the entries it held at that moment,
\* and a successful upload adds its one entry to them.
C14_UploadAddsAfterAllSteps ==
  /\ StepsInOrder
  /\ upc /= "idle" => records = ureq.resumed
  /\ IsUploadResponse =>
       /\ EarlierStepFailed(ret.args) => records = ret.args.resumed
       /\ ret.value.status = 200 =>
            /\ DOMAIN records = DOMAIN ret.args.resumed \cup {ret.value.paper_id}
            /\ ret.value.paper_id \notin DOMAIN ret.args.resumed
            /\ ret.value.paper_id \notin DOMAIN ret.args.before

\* An upload failed at the keywords request while another upload, which
\* arrived later and went on first, had added its entry.
C14_Witness ==
  /\ IsUploadResponse
  /\ ret.value.status = 500
  /\ ret.args.steps = <<"extract", "summarize", "keywords">>
  /\ ret.args.keyworded = LLMRaised
  /\ ret.args.before = [i \in {} |-> None]
  /\ Cardinality(DOMAIN records) = 1
  /\ records = ret.args.resumed

\* C15: every text put into a request to the generative-text service for a
\* summary, for keywords or for an explanation is sent as its first 8000
\* characters followed by "..." when it is longer than 8000 characters, and
\* unchanged otherwise.
C15_LongInputIsTruncated ==
  sent.op \in {"summarize", "extract_keywords", "explanation"} =>
    \A i \in 1..Len(sent.input) :
      sent.text[i] = IF Len(sent.input[i]) > max_chars
                     THEN SubSeq(sent.input[i], 1, max_chars) \o <<".", ".", ".">>
                     ELSE sent.input[i]

\* extract_keywords returned.
IsKeywordsResult == ret.op = "extract_keywords" /\ ret.kind = "return"

\* The pieces of the reply between commas, each trimmed, the empty ones
\* dropped.
TrimmedPieces(reply) ==
  LET pieces == Split(reply, ",")
  IN SelectSeq([i \in 1..Len(pieces) |-> Strip(pieces[i])], LAMBDA piece : piece /= <<>>)

\* What extract_keywords returned is the trimmed, non-empty pieces of the
\* reply in their order, cut to the first n: at most n entries, none empty.
KeywordsParsedAndCapped ==
  LET kept == TrimmedPieces(ret.args.outcome.content)
  IN /\ ret.value = SubSeq(kept, 1, Min(ret.args.num, Len(kept)))
     /\ Len(ret.value) <= ret.args.num
     /\ \A i \in 1..Len(ret.value) :
          /\ ret.value[i] /= <<>>
          /\ ret.value[i] = Strip(ret.value[i])
          /\ \A j \in 1..Len(ret.value[i]) : ret.value[i][j] /= ","

\* C16 as stated: for every reply and every requested count n,
\* extract_keywords returns the pieces of the reply between commas, trimmed,
\* without the empty ones, in their order, cut to the first n.
C16_KeywordsCappedForEveryCount == IsKeywordsResult => KeywordsParsedAndCapped

\* C16 as amended: the same, for every requested count n that is not
\* negative.
C16_KeywordsCappedForCountsFromZero ==
  (IsKeywordsResult /\ ret.args.num >= 0) => KeywordsParsedAndCapped

C16_Witness ==
  /\ IsKeywordsResult
  /\ ret.args.outcome.content = <<" ", "m", " ", ",", ",", " ", "n", " ", ",">>
  /\ ret.args.num = 1
  /\ ret.value = << <<"m">> >>

\* Distance 0: the two vectors point the same way.
ZeroDistance(d) == d.dot > 0 /\ d.dot * d.dot = d.nq * d.nv

\* search(q, 1) without a filter, the storage reachable.
Nearest(q) == search_outcome(q, 1, NoFilter, TRUE)

\* C17: for the vector v of any stored entry, search(v, 1) returns one
\* result, at distance 0 (similarity 1), which is that entry unless another
\* entry holds a vector at distance 0 from v too; and for any query,
\* search(q, 1) returns an entry that no stored entry is nearer than.
C17_NearestEntryFirst ==
  /\ \A i \in DOMAIN records :
       LET out == Nearest(records[i].embedding)
       IN /\ out.kind = "return"
          /\ Len(out.value) = 1
          /\ ZeroDistance(out.value[1].distance)
          /\ records[out.value[1].id].embedding = records[i].embedding
               \/ ZeroDistance(CosineDistance(records[out.value[1].id].embedding,
                                              records[i].embedding))
          /\ (\A j \in DOMAIN records \ {i} :
                ~ZeroDistance(CosineDistance(records[i].embedding, records[j].embedding)))
               => out.value[1].id = i
  /\ \A q \in RankingQueries :
       (Nearest(q).kind = "return" /\ DOMAIN records /= {}) =>
         /\ Len(Nearest(q).value) = 1
         /\ \A j \in DOMAIN records :
              ~Closer(CosineDistance(q, records[j].embedding),
                      Nearest(q).value[1].distance)

C17_Witness ==
  /\ ret.op = "search"
  /\ ret.kind = "return"
  /\ ret.args.query_embedding = Near1(EmbeddingDim)
  /\ ret.args.top_k = 1
  /\ Len(order) = 2
  /\ records[order[1]].embedding = Unit(2, EmbeddingDim)
  /\ records[order[2]].embedding = Unit(1, EmbeddingDim)
  /\ Len(ret.value) = 1
  /\ ret.value[1].id = order[2]
  /\ ret.value[1].metadata.title = "Paper A"

\* C18: of two stored entries at the same distance from the query, search
\* returns the one inserted earlier before the one inserted later.
C18_TiesInInsertionOrder ==
  \A q \in RankingQueries, k \in TopKs :
    LET out == search_outcome(q, k, NoFilter, TRUE)
    IN out.kind = "return" =>
         \A m \in 1..Len(out.value) : \A n \in 1..Len(out.value) :
           (m < n /\ SameDistance(out.value[m].distance, out.value[n].distance))
             => Position(out.value[m].id) < Position(out.value[n].id)

\* C19: in every state reached from the empty collection by add_paper and
\* delete_paper calls, count() equals the number of entries
\* list_all_papers() returns, which is the number of add_paper calls that
\* returned less the number of deletes of stored ids; both are 0 on the
\* empty collection.
C19_CountIsAddsLessDeletes ==
  /\ count_value(TRUE) = Len(list_all_papers_value(TRUE))
  /\ count_value(TRUE) = tally.added - tally.deleted
  /\ ResultIds(list_all_papers_value(TRUE)) = DOMAIN records
  /\ tally.added = 0 => (count_value(TRUE) = 0 /\ list_all_papers_value(TRUE) = <<>>)
  /\ (ret.op = "count" /\ ret.args.ok) => ret.value = tally.added - tally.deleted
  /\ (ret.op = "list_all_papers" /\ ret.args.ok)
       => Len(ret.value) = tally.added - tally.deleted

C19_Witness ==
  /\ tally.added = 2
  /\ tally.deleted = 1
  /\ ret.op = "list_all_papers"
  /\ ret.args.ok
  /\ Len(ret.value) = 1
  /\ count_value(TRUE) = 1

\* C20: a search whose explanation request is never answered still returns:
\* whenever the handler is in the explanation loop it later leaves it, and
\* when the request for hit n ended with the client's timeout, the search
\* later returns with the fallback text in slot n and one explanation for
\* every hit.
C20_SearchReturnsWithoutAnswer ==
  /\ (qpc = "explaining") ~> (qpc = "idle")
  /\ \A n \in 1..MaxIds :
       (qpc = "explaining" /\ n <= Len(replies) /\ replies[n] = LLMTimedOut)
         ~> (/\ SearchReturned
             /\ n <= Len(ret.args.replies)
             /\ ret.args.replies[n] = LLMTimedOut
             /\ ret.value.explanations[n] = FallbackExplanation
             /\ Len(ret.value.explanations) = Len(ret.value.papers))

\* A search of two hits returned: the request for the first timed out and
\* the second was answered.
C20_Witness ==
  /\ SearchReturned
  /\ ret.args.replies = <<LLMTimedOut, LLMText(<<"x">>)>>
  /\ ret.value.explanations = <<FallbackExplanation, <<"x">>>>
  /\ Len(ret.value.papers) = 2

\* The ids in a sequence of ids.
IdsOf(ids) == {ids[n] : n \in 1..Len(ids)}

\* C21: an add_paper call that returns, returns an id that no earlier
\* add_paper call returned, whether or not that id is still stored, and
\* leaves every entry that was stored as it was.
C21_IdsNeverReused ==
  [][Len(tally'.ids) = Len(tally.ids) + 1
       => LET id == tally'.ids[Len(tally'.ids)]
          IN /\ id \notin IdsOf(tally.ids)
             /\ id \notin DOMAIN records
             /\ ret'.op = "add_paper" => ret'.value = id
             /\ \A i \in DOMAIN records :
                  i \in DOMAIN records' /\ records'[i] = records[i]]_vars

C21_Witness ==
  /\ Len(tally.ids) = 2
  /\ tally.deleted = 1
  /\ tally.ids[1] \notin DOMAIN records
  /\ ret.op = "add_paper"
  /\ ret.kind = "return"
  /\ ret.value = tally.ids[2]
  /\ ret.value /= tally.ids[1]

\* C22: a VectorStore opened on a persist directory that holds the
\* collection has the entries the collection had, and an Embedder whose
\* dimension is not the collection's makes the open fail.
C22_ReopenKeepsEntriesAndValidates ==
  ret.op = "__init__"
    => /\ ret.kind = "return" => records = ret.args.entries
       /\ (ret.args.dimension /= 0 /\ ret.args.embedding_dim /= ret.args.dimension)
            => ret.kind = "raise"

\* C23: GET /papers/{paper_id} with a reachable storage answers 404
\* "Paper not found" for an id that is not stored, and the paper for an id
\* that is.
C23_MissingPaperIs404 ==
  (ret.op = "GET /papers" /\ ret.args.ok)
    => IF ret.args.stored
       THEN /\ ret.value.status = 200
            /\ ret.value.paper.id = ret.args.paper_id
            /\ ret.value.paper.metadata = records[ret.args.paper_id].metadata
       ELSE ret.value = Response(404, "Paper not found")

\* The (id, vector, metadata) entries of the collection, and the ids whose
\* entry a step adds, removes or alters.
Entry(recs, i) == [embedding |-> recs[i].embedding, metadata |-> recs[i].metadata]
ChangedIds ==
  {i \in DOMAIN records \cup DOMAIN records' :
     \/ i \notin DOMAIN records
     \/ i \notin DOMAIN records'
     \/ Entry(records, i) /= Entry(records', i)}
ReadOps == {"search", "get_paper", "list_all_papers", "count", "GET /search"}

\* C24: a step changes at most one entry; search, get_paper,
\* list_all_papers, count and every step of QueryEngine.search change none;
\* add_paper changes no entry that was stored; delete_paper(id) changes no
\* entry but the one of id.
C24_OperationsChangeOnlyTheirEntry ==
  [][/\ Cardinality(ChangedIds) <= 1
     /\ (ret' /= ret /\ ret'.op \in ReadOps) => ChangedIds = {}
     /\ (qpc /= "idle" \/ qpc' /= "idle") => ChangedIds = {}
     /\ (ret' /= ret /\ ret'.op = "add_paper")
          => /\ ChangedIds \cap DOMAIN records = {}
             /\ ret'.kind = "return" => ChangedIds = {ret'.value}
             /\ ret'.kind = "raise" => ChangedIds = {}
     /\ (ret' /= ret /\ ret'.op = "delete_paper")
          => ChangedIds \subseteq {ret'.args.paper_id}]_vars

C24_Witness ==
  /\ ret.op = "delete_paper"
  /\ ret.args.stored
  /\ ret.args.count_before = 2
  /\ Cardinality(DOMAIN records) = 1
  /\ ret.args.paper_id \notin DOMAIN records

\* C25: every stored entry holds, under title, summary, keywords (joined
\* with commas), content_snippet and full_text_length, the values of the
\* arguments its add_paper call was given, and holds every key of the
\* call's extra metadata with its value.
C25_FieldsAreTheArguments ==
  \A id \in DOMAIN records :
    LET stored == records[id].metadata
        given == inputs[id]
    IN /\ stored.title = given.title
       /\ stored.summary = given.summary
       /\ stored.keywords = Join(<<",">>, given.keywords)
       /\ stored.content_snippet = given.content_snippet
       /\ stored.full_text_length = Len(given.full_text)
       /\ \A k \in DOMAIN given.metadata :
            k \in DOMAIN stored /\ stored[k] = given.metadata[k]

\* A text with no line that is empty or that begins or ends with
\* whitespace: it does not begin or end with a newline, has no two newlines
\* in a row, and has a whitespace character other than the newline only
\* between two characters that are not newlines.
HasNoEmptyLine(text) ==
  /\ text /= <<>> => (text[1] /= "\n" /\ text[Len(text)] /= "\n")
  /\ \A i \in 1..(Len(text) - 1) : ~(text[i] = "\n" /\ text[i + 1] = "\n")
HasNoLineEdgeWhitespace(text) ==
  \A i \in 1..Len(text) :
    text[i] \in WhiteSpace \ {"\n"}
      => /\ 1 < i /\ i < Len(text)
         /\ text[i - 1] /= "\n"
         /\ text[i + 1] /= "\n"

\* C26: every call of _clean_text leaves its loop and returns; the text it
\* returns has no two spaces in a row, no empty line and no line that
\* begins or ends with whitespace, and _clean_text returns it unchanged.
C26_CleanTextTerminatesAndIsClean ==
  /\ [](ret.op = "_clean_text"
          => /\ ret.value = _clean_text(ret.args.text)
             /\ \A i \in 1..(Len(ret.value) - 1) :
                  ~(ret.value[i] = " " /\ ret.value[i + 1] = " ")
             /\ HasNoEmptyLine(ret.value)
             /\ HasNoLineEdgeWhitespace(ret.value)
             /\ _clean_text(ret.value) = ret.value
             /\ ret.args.again => ret.value = ret.args.text)
  /\ (cleaning.pc = "loop") ~> (cleaning.pc = "idle")

C26_Witness ==
  /\ ret.op = "_clean_text"
  /\ ret.args.text = <<"a", " ", " ", " ", "a">>
  /\ ret.value = <<"a", " ", "a">>
  /\ cleaning.pc = "idle"

====
